---- MODULE Spec2Model ----
(***************************************************************************)
(* Model of yt-downloader.py: filesystem-safe naming, collision-free       *)
(* output paths, stream selection over a pytube catalog and the            *)
(* download / merge orchestration with its two-stage ffmpeg fallback.      *)
(* Strings are sequences of one-character strings, so that concatenation,  *)
(* pathlib's stem/suffix split and the regular expressions are computed    *)
(* and not assumed.                                                        *)
(***************************************************************************)
EXTENDS Integers, Sequences, FiniteSets, TLC

VARIABLES
    pc,          \* position of main / download_video / _download_and_merge_adaptive
    args,        \* the parsed command line (parse_args)
    outdir,      \* names of the files present in the output directory
    outdir0,     \* the output directory as it was when the run started
    title,       \* fs_safe_filename(yt.title or "youtube_video")
    streams,     \* yt.streams, the catalog, in catalog order
    sel,         \* what download_video selected
    tmp,         \* the TemporaryDirectory: [exists, files]
    out_path,    \* out_path of _download_and_merge_adaptive
    ffmpeg_path, \* shutil.which("ffmpeg"): None or "ffmpeg"
    log,         \* history: downloads, muxer invocations and moves, in order
    result,      \* the value download_video returned
    exc,         \* the exception that reached main, and why it was raised
    exit_code,   \* the exit status of the process
    name_in,     \* input of fs_safe_filename (SpecName)
    name_out,    \* successive results of fs_safe_filename (SpecName)
    path_dir,    \* directory contents for unique_path (SpecPath)
    path_target, \* the path requested from unique_path (SpecPath)
    path_out     \* successive requests: [dir, target, got] (SpecPath)

mainVars == <<pc, args, outdir, outdir0, title, streams, sel, tmp, out_path,
              ffmpeg_path, log, result, exc, exit_code>>
nameVars == <<name_in, name_out>>
pathVars == <<path_dir, path_target, path_out>>
vars == <<mainVars, nameVars, pathVars>>

\* Python's None: for a string or a path, for a Stream, for --itag
None == <<>>
NoStream ==
    [itag |-> 0, type |-> "none", is_progressive |-> FALSE,
     subtype |-> <<>>, resolution |-> <<>>, abr |-> <<>>]
NoItag == -1

(***************************************************************************)
(* Bounds of the model.                                                    *)
(***************************************************************************)
MaxLen == 3        \* longest generated input of fs_safe_filename
MaxCatalog == 2    \* most stream descriptors in a catalog
MaxExisting == 1   \* most files already in a directory when a run starts
MaxRequests == 2   \* unique_path requests in a row (SpecPath)

(***************************************************************************)
(* Strings                                                                 *)
(***************************************************************************)
Digits == <<"0", "1", "2", "3", "4", "5", "6", "7", "8", "9">>

IsDigit(c) == \E i \in 1..10 : Digits[i] = c

RECURSIVE IntToStr(_)
IntToStr(n) ==
    IF n < 10 THEN <<Digits[n + 1]>>
    ELSE IntToStr(n \div 10) \o <<Digits[(n % 10) + 1]>>

\* str.lower(), on the letters the model's inputs use
Lower(s) ==
    [i \in 1..Len(s) |->
        CASE s[i] = "A" -> "a" [] s[i] = "U" -> "u" [] s[i] = "D" -> "d"
          [] s[i] = "I" -> "i" [] s[i] = "O" -> "o" [] s[i] = "B" -> "b"
          [] s[i] = "E" -> "e" [] s[i] = "S" -> "s" [] s[i] = "T" -> "t"
          [] s[i] = "P" -> "p" [] OTHER -> s[i]]

Illegal == {"\\", "/", "*", "?", ":", "\"", "<", ">", "|"}
Whitespace == {" ", "\t", "\n"}

\* re.sub(r'[\\/*?:"<>|]', "_", name)
ReplaceIllegal(s) == [i \in 1..Len(s) |-> IF s[i] \in Illegal THEN "_" ELSE s[i]]

RECURSIVE LStrip(_)
LStrip(s) == IF s # <<>> /\ Head(s) \in Whitespace THEN LStrip(Tail(s)) ELSE s

RECURSIVE RStrip(_)
RStrip(s) ==
    IF s # <<>> /\ s[Len(s)] \in Whitespace THEN RStrip(SubSeq(s, 1, Len(s) - 1)) ELSE s

\* str.strip()
Strip(s) == RStrip(LStrip(s))

\* re.sub(r"\s+", " ", s): every maximal run of whitespace becomes one space
RECURSIVE CollapseWhitespace(_)
CollapseWhitespace(s) ==
    IF s = <<>> THEN <<>>
    ELSE IF Head(s) \in Whitespace
         THEN <<" ">> \o CollapseWhitespace(LStrip(s))
         ELSE <<Head(s)>> \o CollapseWhitespace(Tail(s))

\* faulty variant: strip(" ") in place of strip(): only spaces are stripped
RECURSIVE StripSpaces(_)
StripSpaces(s) ==
    IF s # <<>> /\ Head(s) = " " THEN StripSpaces(Tail(s))
    ELSE IF s # <<>> /\ s[Len(s)] = " " THEN StripSpaces(SubSeq(s, 1, Len(s) - 1))
    ELSE s

fs_safe_filename_strip_spaces(name) ==
    CollapseWhitespace(StripSpaces(ReplaceIllegal(name)))

fs_safe_filename(name) == CollapseWhitespace(Strip(ReplaceIllegal(name)))

(***************************************************************************)
(* pathlib and unique_path.  A path is the name of a file in the one       *)
(* directory a run writes to; the directory is the set of names in it.     *)
(***************************************************************************)
\* str.rfind("."), 1-based; 0 when there is none
LastDot(n) ==
    IF \E i \in 1..Len(n) : n[i] = "."
    THEN CHOOSE i \in 1..Len(n) : n[i] = "." /\ \A j \in (i + 1)..Len(n) : n[j] # "."
    ELSE 0

\* PurePath.suffix: from the last dot, unless the dot leads or ends the name
Suffix(n) ==
    LET i == LastDot(n)
    IN  IF 1 < i /\ i < Len(n) THEN SubSeq(n, i, Len(n)) ELSE <<>>

\* PurePath.stem
Stem(n) == SubSeq(n, 1, Len(n) - Len(Suffix(n)))

\* f"{stem} ({i}){suffix}"
Candidate(stem, i, suffix) == stem \o <<" ", "(">> \o IntToStr(i) \o <<")">> \o suffix

RECURSIVE UniqueFrom(_, _, _, _)
UniqueFrom(dir, stem, suffix, i) ==
    IF Candidate(stem, i, suffix) \notin dir
    THEN Candidate(stem, i, suffix)
    ELSE UniqueFrom(dir, stem, suffix, i + 1)

\* faulty variant: the counter is appended without looking whether the name is taken
unique_path_first_counter(dir, path) ==
    IF path \notin dir THEN path ELSE Candidate(Stem(path), 1, Suffix(path))

unique_path(dir, path) ==
    IF path \notin dir THEN path ELSE UniqueFrom(dir, Stem(path), Suffix(path), 1)

(***************************************************************************)
(* String literals of the program and of the inputs                        *)
(***************************************************************************)
sVideo == <<"V", "i", "d", "e", "o">>
sLowerVideo == <<"v", "i", "d", "e", "o">>
sLowerAudio == <<"a", "u", "d", "i", "o">>
sAudioOnly == <<"a", "u", "d", "i", "o", "-", "o", "n", "l", "y">>
sDefaultTitle == <<"y", "o", "u", "t", "u", "b", "e", "_", "v", "i", "d", "e", "o">>
sBest == <<"b", "e", "s", "t">>
sUltra == <<"u", "l", "t", "r", "a">>
sCapAudio == <<"A", "u", "d", "i", "o">>
s720p == <<"7", "2", "0", "p">>
s360p == <<"3", "6", "0", "p">>
s1080p == <<"1", "0", "8", "0", "p">>
s128kbps == <<"1", "2", "8", "k", "b", "p", "s">>
s160kbps == <<"1", "6", "0", "k", "b", "p", "s">>
s96kbps == <<"9", "6", "k", "b", "p", "s">>
mp4 == <<"m", "p", "4">>
webm == <<"w", "e", "b", "m">>
dot == <<".">>
final_ext == <<".", "m", "p", "4">>
sUnderVideo == <<"_", "v", "i", "d", "e", "o">>
sUnderAudio == <<"_", "a", "u", "d", "i", "o">>
sExample == <<"A", "b", "?", "c", "*", "d">>
sExampleSafe == <<"A", "b", "_", "c", "_", "d">>

(***************************************************************************)
(* fs_safe_filename applied once and then to its own result (SpecName)     *)
(***************************************************************************)
NameAlphabet == {"A", "?", "*", " ", "\t", "_"}

Strings(n) == UNION {[1..k -> NameAlphabet] : k \in 0..n}

NameInputs == Strings(MaxLen) \cup {sExample}

NameInit ==
    /\ name_in \in NameInputs
    /\ name_out = <<>>

ApplySafeName ==
    /\ Len(name_out) < 2
    /\ name_out' = Append(name_out,
           fs_safe_filename(IF name_out = <<>> THEN name_in ELSE name_out[Len(name_out)]))
    /\ UNCHANGED name_in

(***************************************************************************)
(* unique_path requested, its result created, requested again (SpecPath)   *)
(***************************************************************************)
MaxPathFiles == 2  \* most files in the directory when the requests start

PathPool ==
    { sVideo \o final_ext,
      Candidate(sVideo, 1, final_ext),
      Candidate(sVideo, 2, final_ext),
      sVideo,
      final_ext }

PathInit ==
    /\ path_dir \in {d \in SUBSET PathPool : Cardinality(d) <= MaxPathFiles}
    /\ path_target \in PathPool
    /\ path_out = <<>>

RequestUnique ==
    /\ Len(path_out) < MaxRequests
    /\ path_out' = Append(path_out,
           [dir |-> path_dir, target |-> path_target,
            got |-> unique_path(path_dir, path_target)])
    /\ UNCHANGED <<path_dir, path_target>>

\* the caller writes the file it asked a name for (stream.download, shutil.move)
CreateFile ==
    /\ path_out # <<>>
    /\ path_out[Len(path_out)].got \notin path_dir
    /\ path_dir' = path_dir \cup {path_out[Len(path_out)].got}
    /\ UNCHANGED <<path_target, path_out>>

(***************************************************************************)
(* The catalog: pytube Stream objects as download_video reads them         *)
(***************************************************************************)
Stream(itag, type, progressive, subtype, resolution, abr) ==
    [itag |-> itag, type |-> type, is_progressive |-> progressive,
     subtype |-> subtype, resolution |-> resolution, abr |-> abr]

\* pytube knows the resolution of the itags in its tables only: stream 700
\* stands for a progressive stream whose resolution is None
Pool ==
    << Stream(18, "video", TRUE, mp4, s360p, s96kbps),
       Stream(22, "video", TRUE, mp4, s720p, s128kbps),
       Stream(43, "video", TRUE, webm, s360p, s128kbps),
       Stream(700, "video", TRUE, mp4, None, s128kbps),
       Stream(136, "video", FALSE, mp4, s720p, None),
       Stream(248, "video", FALSE, webm, s1080p, None),
       Stream(140, "audio", FALSE, mp4, None, s128kbps),
       Stream(251, "audio", FALSE, webm, None, s160kbps) >>

PoolItags == {Pool[i].itag : i \in 1..Len(Pool)}

Catalogs ==
    { SelectSeq(Pool, LAMBDA s : s.itag \in I) :
        I \in {J \in SUBSET PoolItags : Cardinality(J) <= MaxCatalog} }

\* Stream.includes_audio_track / includes_video_track
IncludesAudio(s) == s.is_progressive \/ s.type = "audio"
IncludesVideo(s) == s.is_progressive \/ s.type = "video"

\* StreamQuery.filter(only_audio=True), (only_video=True), (adaptive=True)
OnlyAudio(s) == IncludesAudio(s) /\ ~IncludesVideo(s)
OnlyVideo(s) == IncludesVideo(s) /\ ~IncludesAudio(s)
IsAdaptive(s) == ~s.is_progressive

\* StreamQuery.first()
First(q) == IF q = <<>> THEN NoStream ELSE q[1]

\* int("".join(filter(str.isdigit, value))), the key order_by sorts on
RECURSIVE DigitsToInt(_, _)
DigitsToInt(s, acc) ==
    IF s = <<>> THEN acc
    ELSE IF IsDigit(Head(s))
         THEN DigitsToInt(Tail(s), acc * 10 + ((CHOOSE i \in 1..10 : Digits[i] = Head(s)) - 1))
         ELSE DigitsToInt(Tail(s), acc)

\* q.order_by(attr).desc().first(): streams without the attribute are dropped,
\* the stable ascending sort is reversed, so of equal keys the last one leads
OrderByDescFirst(q, attr) ==
    LET has == SelectSeq(q, LAMBDA s : s[attr] # None)
        key(i) == DigitsToInt(has[i][attr], 0)
    IN  IF has = <<>> THEN NoStream
        ELSE has[CHOOSE i \in 1..Len(has) :
                    \A j \in 1..Len(has) :
                        key(j) < key(i) \/ (key(j) = key(i) /\ j <= i)]

\* StreamQuery.get_by_itag
GetByItag(q, itag) ==
    IF \E i \in 1..Len(q) : q[i].itag = itag
    THEN q[CHOOSE i \in 1..Len(q) : q[i].itag = itag]
    ELSE NoStream

\* streams.filter(only_audio=True).order_by("abr").desc().first()
BestAudioAny(q) == OrderByDescFirst(SelectSeq(q, OnlyAudio), "abr")

\* re.match(r"^\d+p$", quality)
IsResolutionQuality(quality) ==
    /\ Len(quality) >= 2
    /\ quality[Len(quality)] = "p"
    /\ \A i \in 1..(Len(quality) - 1) : IsDigit(quality[i])

\* quality.lower() in ("audio", "audio-only")
IsAudioQuality(quality) == Lower(quality) \in {sLowerAudio, sAudioOnly}

(***************************************************************************)
(* Selection, download_video lines 88-139.  The result is an error, a      *)
(* single stream with the name it is saved under, or an adaptive pair.     *)
(***************************************************************************)
SelError(type, reason) == [kind |-> "error", type |-> type, reason |-> reason]

Single(dir, ttl, s) ==
    [kind |-> "single", stream |-> s,
     out_name |-> unique_path(dir, ttl \o dot \o s.subtype)]

Pair(video, audio) == [kind |-> "pair", video |-> video, audio |-> audio]

\* lines 88-100
SelectByItag(q, itag, dir, ttl) ==
    LET stream == GetByItag(q, itag)
        audio == BestAudioAny(q)
    IN  IF stream = NoStream THEN SelError("ValueError", "unknown_itag")
        ELSE IF stream.is_progressive THEN Single(dir, ttl, stream)
        ELSE IF audio = NoStream THEN SelError("RuntimeError", "no_audio_to_pair")
        ELSE Pair(stream, audio)

\* lines 101-108
SelectAudio(q, dir, ttl) ==
    LET audio == BestAudioAny(q)
    IN  IF audio = NoStream THEN SelError("RuntimeError", "no_audio")
        ELSE Single(dir, ttl, audio)

\* faulty variant: only the mp4 progressive stream of the resolution is looked for
ProgressiveAtMp4Only(q, res) ==
    First(SelectSeq(q, LAMBDA s : s.is_progressive /\ s.subtype = mp4 /\ s.resolution = res))

\* lines 111-112
ProgressiveAt(q, res) ==
    LET m == First(SelectSeq(q, LAMBDA s :
                 s.is_progressive /\ s.subtype = mp4 /\ s.resolution = res))
    IN  IF m # NoStream THEN m
        ELSE First(SelectSeq(q, LAMBDA s : s.is_progressive /\ s.resolution = res))

\* lines 109-124
SelectResolution(q, desired_res, dir, ttl) ==
    LET progressive == ProgressiveAt(q, desired_res)
        exact == First(SelectSeq(q, LAMBDA s :
                     IsAdaptive(s) /\ OnlyVideo(s) /\ s.resolution = desired_res
                     /\ s.subtype = mp4))
        video_adaptive ==
            IF exact # NoStream THEN exact
            ELSE OrderByDescFirst(
                     SelectSeq(q, LAMBDA s : IsAdaptive(s) /\ OnlyVideo(s)), "resolution")
        audio_adaptive == BestAudioAny(q)
    IN  IF progressive # NoStream THEN Single(dir, ttl, progressive)
        ELSE IF video_adaptive = NoStream \/ audio_adaptive = NoStream
             THEN SelError("RuntimeError", "no_suitable_for_resolution")
             ELSE Pair(video_adaptive, audio_adaptive)

\* line 125
BestProgressive(q) ==
    OrderByDescFirst(SelectSeq(q, LAMBDA s : s.is_progressive /\ s.subtype = mp4),
                     "resolution")

\* lines 125-139
SelectBest(q, dir, ttl) ==
    LET best_prog == BestProgressive(q)
        video_mp4 == OrderByDescFirst(
            SelectSeq(q, LAMBDA s : IsAdaptive(s) /\ OnlyVideo(s) /\ s.subtype = mp4),
            "resolution")
        audio_mp4 == OrderByDescFirst(
            SelectSeq(q, LAMBDA s : OnlyAudio(s) /\ s.subtype = mp4), "abr")
        best_video ==
            IF video_mp4 # NoStream THEN video_mp4
            ELSE OrderByDescFirst(
                     SelectSeq(q, LAMBDA s : IsAdaptive(s) /\ OnlyVideo(s)), "resolution")
        best_audio == IF audio_mp4 # NoStream THEN audio_mp4 ELSE BestAudioAny(q)
    IN  IF best_prog # NoStream THEN Single(dir, ttl, best_prog)
        ELSE IF best_video = NoStream \/ best_audio = NoStream
             THEN SelError("RuntimeError", "no_suitable_streams")
             ELSE Pair(best_video, best_audio)

\* lines 88-139: --itag first, then the quality string
Selection(a, q, dir, ttl) ==
    IF a.itag # NoItag THEN SelectByItag(q, a.itag, dir, ttl)
    ELSE IF IsAudioQuality(a.quality) THEN SelectAudio(q, dir, ttl)
    ELSE IF IsResolutionQuality(a.quality) THEN SelectResolution(q, a.quality, dir, ttl)
    ELSE SelectBest(q, dir, ttl)

(***************************************************************************)
(* The command line and the environment                                    *)
(***************************************************************************)
GoodUrl == "https://youtu.be/dQw4w9WgXcQ"
BadUrl == "https://example.com/watch"

\* YOUTUBE_URL_RE.search(url), on the URLs of the model
is_youtube_url(url) == url = GoodUrl

Qualities == {sBest, sLowerAudio, sCapAudio, s720p, s360p, sUltra}

Itags == {NoItag, 22, 136, 140, 999}

\* parse_args: url, -q (default "best"), --list, --itag, --no-merge
ArgSets ==
    [url : {GoodUrl, BadUrl}, quality : Qualities, list : BOOLEAN,
     itag : Itags, no_merge : BOOLEAN]

\* yt.title as the site gives it; "" stands for a missing title
RawTitles == {sVideo, sLowerVideo, <<>>}

\* files that may be in the output directory before the run
DirPool ==
    { sVideo \o final_ext,
      sVideo \o sUnderVideo \o final_ext,
      sVideo \o sUnderAudio \o dot \o webm,
      sLowerVideo \o final_ext }

InitialDirs == {d \in SUBSET DirPool : Cardinality(d) <= MaxExisting}

NoTool == ""
NoExc == [type |-> "none", reason |-> "none"]
NoSel == [kind |-> "none"]
NoTmp == [exists |-> FALSE, files |-> {}]

(***************************************************************************)
(* main: what reaches it, and the exit status                              *)
(***************************************************************************)
\* lines 190-204; a run that ends without sys.exit ends with status 0
ExitCode(type) ==
    CASE type \in {"none", "KeyboardInterrupt"} -> 0
      [] type = "ValueError" -> 2
      [] type \in {"VideoUnavailable", "MembersOnly", "LiveStreamError"} -> 3
      [] OTHER -> 4

\* an exception leaves download_video and is handled by main
Raise(type, reason) ==
    /\ exc' = [type |-> type, reason |-> reason]
    /\ exit_code' = ExitCode(type)
    /\ pc' = "exit"
    /\ UNCHANGED result

\* download_video returns, main logs the result and ends
Return(path) ==
    /\ result' = path
    /\ exc' = NoExc
    /\ exit_code' = ExitCode("none")
    /\ pc' = "exit"

\* faulty variant: the directory is removed by hand where the function returns, and
\* stays behind when an exception leaves the block
AfterWithOnReturnOnly(t, raised) == IF raised THEN t ELSE NoTmp

\* TemporaryDirectory.__exit__, line 143: the directory and all in it are removed
AfterWith(t, raised) == NoTmp

\* "video.<subtype>" and "audio.<subtype>", lines 145-146
VideoTmp(s) == sLowerVideo \o dot \o s.video.subtype
AudioTmp(s) == sLowerAudio \o dot \o s.audio.subtype

\* faulty variant: --no-merge is ignored when ffmpeg is installed
ShouldMergeIgnoringFlag(merge_with_ffmpeg, ffmpeg) == ffmpeg # NoTool

\* line 154
ShouldMerge(merge_with_ffmpeg, ffmpeg) == merge_with_ffmpeg /\ ffmpeg # NoTool

\* faulty variant: the re-encode is run whatever the copy returned
AfterFastMergeAlwaysReencode(returncode) == "fallback_merge"

\* line 158
AfterFastMerge(returncode) == IF returncode # 0 THEN "fallback_merge" ELSE "merged"

\* line 162
AfterFallbackMerge(returncode) == IF returncode # 0 THEN "video_only" ELSE "merged"

MainInit ==
    /\ pc = "start"
    /\ args \in ArgSets
    /\ outdir0 \in InitialDirs
    /\ outdir = outdir0
    /\ title = None
    /\ streams = <<>>
    /\ sel = NoSel
    /\ tmp = NoTmp
    /\ out_path = None
    /\ ffmpeg_path = NoTool
    /\ log = <<>>
    /\ result = None
    /\ exc = NoExc
    /\ exit_code = -1

\* lines 59-62: the URL test; mkdir(exist_ok=True) adds no file
Start ==
    /\ pc = "start"
    /\ IF ~is_youtube_url(args.url)
       THEN Raise("ValueError", "bad_url")
       ELSE pc' = "construct" /\ UNCHANGED <<result, exc, exit_code>>
    /\ UNCHANGED <<args, outdir, outdir0, title, streams, sel, tmp, out_path,
                   ffmpeg_path, log>>

\* lines 63-70: YouTube(url), its exceptions translated
Construct ==
    /\ pc = "construct"
    /\ \E o \in {"ok", "RegexMatchError", "VideoUnavailable", "Exception", "KeyboardInterrupt"} :
         CASE o = "ok" -> pc' = "metadata" /\ UNCHANGED <<result, exc, exit_code>>
           [] o = "RegexMatchError" -> Raise("ValueError", "bad_url")
           [] o = "VideoUnavailable" -> Raise("RuntimeError", "unavailable")
           [] o = "Exception" -> Raise("RuntimeError", "init_failed")
           [] o = "KeyboardInterrupt" -> Raise("KeyboardInterrupt", "interrupt")
    /\ UNCHANGED <<args, outdir, outdir0, title, streams, sel, tmp, out_path,
                   ffmpeg_path, log>>

\* lines 71-80: yt.title and yt.streams fetch the page; pytube reports an
\* unavailable video here, and nothing on this path translates it
FetchMetadata ==
    /\ pc = "metadata"
    /\ \E o \in {"ok", "VideoUnavailable", "MembersOnly", "LiveStreamError",
                 "Exception", "KeyboardInterrupt"} :
         IF o = "ok"
         THEN /\ \E t \in RawTitles, c \in Catalogs :
                   /\ title' = fs_safe_filename(IF t = <<>> THEN sDefaultTitle ELSE t)
                   /\ streams' = c
              /\ pc' = "streams"
              /\ UNCHANGED <<result, exc, exit_code>>
         ELSE /\ Raise(o, CASE o = "Exception" -> "network"
                            [] o = "KeyboardInterrupt" -> "interrupt"
                            [] OTHER -> "unavailable")
              /\ UNCHANGED <<title, streams>>
    /\ UNCHANGED <<args, outdir, outdir0, sel, tmp, out_path, ffmpeg_path, log>>

\* lines 81-87
ListStreams ==
    /\ pc = "streams"
    /\ args.list
    /\ Return(None)
    /\ UNCHANGED <<args, outdir, outdir0, title, streams, sel, tmp, out_path,
                   ffmpeg_path, log>>

\* faulty variant: with --itag the video stream is fetched before an audio stream to
\* pair it with is looked for
SelectFetchingBeforePairing ==
    /\ pc = "streams"
    /\ ~args.list
    /\ LET r == Selection(args, streams, outdir, title)
       IN  IF r.kind = "error"
           THEN /\ Raise(r.type, r.reason)
                /\ log' = IF r.reason = "no_audio_to_pair"
                          THEN Append(log, [op |-> "download", itag |-> args.itag,
                                            where |-> "tmpdir", name |-> None,
                                            outcome |-> "ok"])
                          ELSE log
                /\ UNCHANGED sel
           ELSE /\ sel' = r
                /\ pc' = IF r.kind = "single" THEN "download_single" ELSE "tmpdir"
                /\ UNCHANGED <<result, exc, exit_code, log>>
    /\ UNCHANGED <<args, outdir, outdir0, title, streams, tmp, out_path, ffmpeg_path>>

\* lines 88-139, up to the download or the call of _download_and_merge_adaptive
Select ==
    /\ pc = "streams"
    /\ ~args.list
    /\ LET r == Selection(args, streams, outdir, title)
       IN  IF r.kind = "error"
           THEN Raise(r.type, r.reason) /\ UNCHANGED sel
           ELSE /\ sel' = r
                /\ pc' = IF r.kind = "single" THEN "download_single" ELSE "tmpdir"
                /\ UNCHANGED <<result, exc, exit_code>>
    /\ UNCHANGED <<args, outdir, outdir0, title, streams, tmp, out_path,
                   ffmpeg_path, log>>

Download(s, where, name, outcome) ==
    [op |-> "download", itag |-> s.itag, where |-> where, name |-> name,
     outcome |-> outcome]

\* stream.download: it ends, fails or is interrupted; a transfer that does not
\* end may leave the part it wrote
TransferOutcomes == {"ok", "Exception", "KeyboardInterrupt"}

\* lines 94, 107, 116, 129: the single stream goes to the output directory
DownloadSingle ==
    /\ pc = "download_single"
    /\ \E o \in TransferOutcomes, partial \in BOOLEAN :
         /\ log' = Append(log, Download(sel.stream, "outdir", sel.out_name, o))
         /\ IF o = "ok"
            THEN /\ partial  \* a transfer that ended wrote the file
                 /\ outdir' = outdir \cup {sel.out_name}
                 /\ Return(sel.out_name)
            ELSE /\ outdir' = IF partial THEN outdir \cup {sel.out_name} ELSE outdir
                 /\ Raise(o, IF o = "Exception" THEN "transfer" ELSE "interrupt")
    /\ UNCHANGED <<args, outdir0, title, streams, sel, tmp, out_path, ffmpeg_path>>

\* lines 143-146
EnterTmpDir ==
    /\ pc = "tmpdir"
    /\ tmp' = [exists |-> TRUE, files |-> {}]
    /\ pc' = "download_video"
    /\ UNCHANGED <<args, outdir, outdir0, title, streams, sel, out_path,
                   ffmpeg_path, log, result, exc, exit_code>>

\* a download into the temporary directory, lines 148 and 150
DownloadTmp(stream, name, next) ==
    \E o \in TransferOutcomes, partial \in BOOLEAN :
        /\ log' = Append(log, Download(stream, "tmpdir", name, o))
        /\ IF o = "ok"
           THEN /\ partial
                /\ tmp' = [tmp EXCEPT !.files = @ \cup {name}]
                /\ pc' = next
                /\ UNCHANGED <<result, exc, exit_code>>
           ELSE /\ tmp' = AfterWith(
                       [tmp EXCEPT !.files = IF partial THEN @ \cup {name} ELSE @], TRUE)
                /\ Raise(o, IF o = "Exception" THEN "transfer" ELSE "interrupt")

\* line 148
DownloadVideo ==
    /\ pc = "download_video"
    /\ DownloadTmp(sel.video, VideoTmp(sel), "download_audio")
    /\ UNCHANGED <<args, outdir, outdir0, title, streams, sel, out_path, ffmpeg_path>>

\* line 150
DownloadAudio ==
    /\ pc = "download_audio"
    /\ DownloadTmp(sel.audio, AudioTmp(sel), "plan")
    /\ UNCHANGED <<args, outdir, outdir0, title, streams, sel, out_path, ffmpeg_path>>

\* lines 151-154: the output path, the search for ffmpeg, the branch
PlanOutput ==
    /\ pc = "plan"
    /\ out_path' = unique_path(outdir, title \o final_ext)
    /\ \E f \in {NoTool, "/usr/bin/ffmpeg"} :
         /\ ffmpeg_path' = f
         /\ pc' = IF ShouldMerge(~args.no_merge, f) THEN "fast_merge" ELSE "save_separate"
    /\ UNCHANGED <<args, outdir, outdir0, title, streams, sel, tmp, log, result,
                   exc, exit_code>>

Mux(mode, outcome) == [op |-> "mux", mode |-> mode, out |-> out_path, outcome |-> outcome]

\* subprocess.run of ffmpeg: it returns 0 and has written out_path, returns
\* non-zero and may have left a part of it, cannot be started, or is interrupted
MuxOutcomes == {"0", "1", "OSError", "KeyboardInterrupt"}

RunMux(mode, afterZero, afterNonZero) ==
    \E o \in MuxOutcomes, wrote \in BOOLEAN :
        /\ log' = Append(log, Mux(mode, o))
        /\ outdir' = IF wrote THEN outdir \cup {out_path} ELSE outdir
        /\ CASE o = "0" ->
                  /\ wrote
                  /\ IF afterZero = "merged"
                     THEN tmp' = AfterWith(tmp, FALSE) /\ Return(out_path)
                     ELSE pc' = afterZero /\ UNCHANGED <<tmp, result, exc, exit_code>>
             [] o = "1" ->
                  /\ IF afterNonZero = "merged"
                     THEN tmp' = AfterWith(tmp, FALSE) /\ Return(out_path)
                     ELSE pc' = afterNonZero /\ UNCHANGED <<tmp, result, exc, exit_code>>
             [] o = "OSError" ->
                  /\ ~wrote
                  /\ tmp' = AfterWith(tmp, TRUE)
                  /\ Raise("OSError", "muxer")
             [] o = "KeyboardInterrupt" ->
                  /\ tmp' = AfterWith(tmp, TRUE)
                  /\ Raise("KeyboardInterrupt", "interrupt")

\* lines 155-158 and, when the copy succeeded, 168-169
FastMerge ==
    /\ pc = "fast_merge"
    /\ RunMux("copy", AfterFastMerge(0), AfterFastMerge(1))
    /\ UNCHANGED <<args, outdir0, title, streams, sel, out_path, ffmpeg_path>>

\* lines 159-162 and, when the re-encode succeeded, 168-169
FallbackMerge ==
    /\ pc = "fallback_merge"
    /\ RunMux("reencode", AfterFallbackMerge(0), AfterFallbackMerge(1))
    /\ UNCHANGED <<args, outdir0, title, streams, sel, out_path, ffmpeg_path>>

Move(src, dst, dir) ==
    [op |-> "move", src |-> src, dst |-> dst, existed |-> dst \in dir, dir |-> dir]

\* faulty variant: the video is moved to output_dir / video_tmp.name as it is
FallbackPathAsIs(dir, s) == VideoTmp(s)

\* line 164
FallbackPath(dir, s) == unique_path(dir, VideoTmp(s))

\* lines 163-167: the video alone is kept
VideoOnlyFallback ==
    /\ pc = "video_only"
    /\ LET fallback == FallbackPath(outdir, sel)
       IN  /\ log' = Append(log, Move(VideoTmp(sel), fallback, outdir))
           /\ outdir' = outdir \cup {fallback}
           /\ tmp' = AfterWith([tmp EXCEPT !.files = @ \ {VideoTmp(sel)}], FALSE)
           /\ Return(fallback)
    /\ UNCHANGED <<args, outdir0, title, streams, sel, out_path, ffmpeg_path>>

\* str.lstrip("."), on a suffix
LStripDots(s) == IF s # <<>> /\ Head(s) = "." THEN Tail(s) ELSE s

\* video_tmp.suffix.lstrip('.') or video_tmp.suffix
ExtOf(name) == IF LStripDots(Suffix(name)) # <<>> THEN LStripDots(Suffix(name)) ELSE Suffix(name)

\* lines 170-176: both files are kept, unmerged
SaveSeparate ==
    /\ pc = "save_separate"
    /\ LET video_out == unique_path(outdir, title \o sUnderVideo \o dot \o ExtOf(VideoTmp(sel)))
           audio_out == unique_path(outdir, title \o sUnderAudio \o dot \o ExtOf(AudioTmp(sel)))
           dir1 == outdir \cup {video_out}
       IN  /\ log' = log \o << Move(VideoTmp(sel), video_out, outdir),
                               Move(AudioTmp(sel), audio_out, dir1) >>
           /\ outdir' = dir1 \cup {audio_out}
           /\ tmp' = AfterWith(
                  [tmp EXCEPT !.files = @ \ {VideoTmp(sel), AudioTmp(sel)}], FALSE)
           /\ Return(video_out)
    /\ UNCHANGED <<args, outdir0, title, streams, sel, out_path, ffmpeg_path>>

(***************************************************************************)
(* Specifications                                                          *)
(***************************************************************************)
MainIdle ==
    /\ pc = "idle" /\ args = [url |-> GoodUrl] /\ outdir = {} /\ outdir0 = {}
    /\ title = None /\ streams = <<>> /\ sel = NoSel /\ tmp = NoTmp
    /\ out_path = None /\ ffmpeg_path = NoTool /\ log = <<>> /\ result = None
    /\ exc = NoExc /\ exit_code = -1

NameIdle == name_in = <<>> /\ name_out = <<>>

PathIdle == path_dir = {} /\ path_target = <<>> /\ path_out = <<>>

Init == MainInit /\ NameIdle /\ PathIdle

Next ==
    \/ Start /\ UNCHANGED <<nameVars, pathVars>>
    \/ Construct /\ UNCHANGED <<nameVars, pathVars>>
    \/ FetchMetadata /\ UNCHANGED <<nameVars, pathVars>>
    \/ ListStreams /\ UNCHANGED <<nameVars, pathVars>>
    \/ Select /\ UNCHANGED <<nameVars, pathVars>>
    \/ DownloadSingle /\ UNCHANGED <<nameVars, pathVars>>
    \/ EnterTmpDir /\ UNCHANGED <<nameVars, pathVars>>
    \/ DownloadVideo /\ UNCHANGED <<nameVars, pathVars>>
    \/ DownloadAudio /\ UNCHANGED <<nameVars, pathVars>>
    \/ PlanOutput /\ UNCHANGED <<nameVars, pathVars>>
    \/ FastMerge /\ UNCHANGED <<nameVars, pathVars>>
    \/ FallbackMerge /\ UNCHANGED <<nameVars, pathVars>>
    \/ VideoOnlyFallback /\ UNCHANGED <<nameVars, pathVars>>
    \/ SaveSeparate /\ UNCHANGED <<nameVars, pathVars>>

Spec == Init /\ [][Next]_vars

NameNext == ApplySafeName /\ UNCHANGED <<mainVars, pathVars>>

NameSpecInit == MainIdle /\ NameInit /\ PathIdle

SpecName == NameSpecInit /\ [][NameNext]_vars

PathNext ==
    \/ RequestUnique /\ UNCHANGED <<mainVars, nameVars>>
    \/ CreateFile /\ UNCHANGED <<mainVars, nameVars>>

PathSpecInit == MainIdle /\ NameIdle /\ PathInit

SpecPath == PathSpecInit /\ [][PathNext]_vars

(***************************************************************************)
(* What the properties read from a run                                     *)
(***************************************************************************)
MuxEvents == SelectSeq(log, LAMBDA e : e.op = "mux")
Moves == SelectSeq(log, LAMBDA e : e.op = "move")
Downloads == SelectSeq(log, LAMBDA e : e.op = "download")

SelectionErrors ==
    {"unknown_itag", "no_audio_to_pair", "no_audio", "no_suitable_for_resolution",
     "no_suitable_streams"}

\* download_video has run its selection: it chose, or it raised a selection error
Selected == sel # NoSel \/ exc.reason \in SelectionErrors

\* p is what the unique-name policy allows for target in directory dir: free,
\* the target itself when that is free, else the counter form with the smallest
\* counter from 1 whose name is free
IsUniqueFor(dir, target, p) ==
    /\ p \notin dir
    /\ target \notin dir => p = target
    /\ target \in dir =>
          \E i \in 1..(Cardinality(dir) + 1) :
              /\ p = Stem(target) \o <<" ", "(">> \o IntToStr(i) \o <<")">> \o Suffix(target)
              /\ \A j \in 1..(i - 1) :
                    (Stem(target) \o <<" ", "(">> \o IntToStr(j) \o <<")">> \o Suffix(target)) \in dir

(***************************************************************************)
(* C1: with merging enabled and ffmpeg present the merge step runs         *)
(* Start -> FastMergeAttempt -> (Success | FallbackMergeAttempt) ->        *)
(* (Success | VideoOnlyFallback): ffmpeg is invoked at most twice, first   *)
(* as copy; the re-encode only follows a copy that reported failure; the   *)
(* video-only move only follows two failed invocations; no step of the     *)
(* merge goes back to an earlier one, and every state of it has a next     *)
(* step, so every path ends in a terminal outcome.                         *)
(***************************************************************************)
MergePcs == {"fast_merge", "fallback_merge", "video_only"}

MergeEdges ==
    { <<"fast_merge", "exit">>, <<"fast_merge", "fallback_merge">>,
      <<"fallback_merge", "exit">>, <<"fallback_merge", "video_only">>,
      <<"video_only", "exit">> }

MergeOrder ==
    /\ Len(MuxEvents) <= 2
    /\ MuxEvents # <<>> =>
          /\ MuxEvents[1].mode = "copy"
          /\ ~args.no_merge /\ ffmpeg_path # NoTool
    /\ Len(MuxEvents) = 2 =>
          /\ MuxEvents[2].mode = "reencode"
          /\ MuxEvents[1].outcome = "1"
    /\ pc = "fast_merge" => MuxEvents = <<>>
    /\ pc = "fallback_merge" => Len(MuxEvents) = 1 /\ MuxEvents[1].outcome = "1"
    /\ (pc = "video_only" \/ (MuxEvents # <<>> /\ Moves # <<>>)) =>
          /\ Len(MuxEvents) = 2
          /\ MuxEvents[1].outcome = "1" /\ MuxEvents[2].outcome = "1"
    /\ pc \in MergePcs => ENABLED Next
    /\ (pc = "exit" /\ MuxEvents # <<>>) =>
          \/ exc = NoExc /\ result = out_path
                /\ MuxEvents[Len(MuxEvents)].outcome = "0"
          \/ exc = NoExc /\ Len(Moves) = 1 /\ result = Moves[1].dst
          \/ exc.type \in {"OSError", "KeyboardInterrupt"}

MergeStep == pc \in MergePcs => <<pc, pc'>> \in MergeEdges

MergeStateMachine == []MergeOrder /\ [][MergeStep]_vars

\* C1 witness: a run went through both attempts and ended in the video-only fallback
MergeWitness ==
    /\ pc = "exit"
    /\ Len(MuxEvents) = 2
    /\ MuxEvents[2].outcome = "1"
    /\ Len(Moves) = 1

(***************************************************************************)
(* C2: whenever download_video hands a pair to                             *)
(* _download_and_merge_adaptive, the video half is a video-only stream and *)
(* the audio half an audio-only stream.                                    *)
(***************************************************************************)
PairHalvesComplementary ==
    sel.kind = "pair" => OnlyVideo(sel.video) /\ OnlyAudio(sel.audio)

(***************************************************************************)
(* C3, as claimed: for quality "best" and for quality "<digits>p", a       *)
(* catalog with a progressive stream (of the requested resolution, for     *)
(* "<digits>p") makes the selection a single progressive stream, whatever  *)
(* the container.                                                          *)
(***************************************************************************)
IsBestRequest == args.itag = NoItag /\ args.quality = sBest
IsResolutionRequest == args.itag = NoItag /\ IsResolutionQuality(args.quality)

HasProgressive == \E i \in 1..Len(streams) : streams[i].is_progressive

HasProgressiveMp4 ==
    \E i \in 1..Len(streams) :
        /\ streams[i].is_progressive /\ streams[i].subtype = mp4
        /\ streams[i].resolution # None

HasProgressiveAtResolution ==
    \E i \in 1..Len(streams) :
        streams[i].is_progressive /\ streams[i].resolution = args.quality

HasProgressiveMp4AtResolution ==
    \E i \in 1..Len(streams) :
        /\ streams[i].is_progressive /\ streams[i].subtype = mp4
        /\ streams[i].resolution = args.quality

ResolutionGetsProgressive ==
    (Selected /\ IsResolutionRequest /\ HasProgressiveAtResolution) =>
        /\ sel.kind = "single"
        /\ sel.stream.is_progressive
        /\ sel.stream.resolution = args.quality

ValidQuality(q) == q = sBest \/ IsAudioQuality(q) \/ IsResolutionQuality(q)

EnvironmentFailures ==
    {"interrupt", "unavailable", "network", "init_failed", "transfer", "muxer"}

ExitCodeMapping ==
    pc = "exit" =>
        /\ (exc = NoExc /\ (args.list \/ ValidQuality(args.quality))) => exit_code = 0
        /\ exc.reason = "interrupt" => exit_code = 0
        /\ exc.reason \in {"bad_url", "unknown_itag"} => exit_code = 2
        /\ (is_youtube_url(args.url) /\ ~args.list /\ ~ValidQuality(args.quality)
               /\ exc.reason \notin EnvironmentFailures) => exit_code = 2
        /\ exc.reason = "unavailable" => exit_code = 3
        /\ (ValidQuality(args.quality)
               /\ exc.reason \in ({"network", "init_failed", "transfer", "muxer"}
                                   \cup (SelectionErrors \ {"unknown_itag"}))) =>
              exit_code = 4

(***************************************************************************)
(* C5: when the copy and the re-encode both fail the run is a success: the *)
(* temporary video file alone is moved into the output directory, to the   *)
(* path the unique-name policy gives for "video.<subtype>", which did not  *)
(* exist before the move; that path is returned, the temporary audio file  *)
(* is not moved, and the exit status is 0.                                 *)
(***************************************************************************)
BothMergesFailed ==
    /\ Len(MuxEvents) = 2
    /\ MuxEvents[1].outcome = "1" /\ MuxEvents[2].outcome = "1"

VideoOnlyOutcome ==
    (pc = "exit" /\ BothMergesFailed) =>
        /\ exc = NoExc /\ exit_code = 0
        /\ Len(Moves) = 1
        /\ Moves[1].src = sLowerVideo \o dot \o sel.video.subtype
        /\ Moves[1].dst = result
        /\ ~Moves[1].existed
        /\ IsUniqueFor(Moves[1].dir, sLowerVideo \o dot \o sel.video.subtype, result)
        /\ result \in outdir
        /\ \A i \in 1..Len(Moves) : Moves[i].src # sLowerAudio \o dot \o sel.audio.subtype
        /\ (sLowerAudio \o dot \o sel.audio.subtype) \in outdir =>
              (sLowerAudio \o dot \o sel.audio.subtype) \in outdir0

\* C5 witness: both attempts failed and the name video.<subtype> was taken, so
\* the video went to a counter name
VideoOnlyWitness ==
    /\ pc = "exit" /\ BothMergesFailed
    /\ Len(Moves) = 1
    /\ Moves[1].dst # Moves[1].src
    /\ result = Moves[1].dst

(***************************************************************************)
(* C6: when _download_and_merge_adaptive has ended, by a return or by an   *)
(* exception, its temporary directory and every file left in it are gone;  *)
(* the directory exists only while the function runs.                      *)
(***************************************************************************)
InsideWith ==
    {"download_video", "download_audio", "plan", "fast_merge", "fallback_merge",
     "video_only", "save_separate"}

TmpDirRemoved ==
    /\ pc = "exit" => ~tmp.exists /\ tmp.files = {}
    /\ tmp.exists => pc \in InsideWith
    /\ pc \in InsideWith => tmp.exists

\* C6 witness: the video was downloaded into the directory, the audio download
\* failed, and the run has ended
TmpDirWitness ==
    /\ pc = "exit"
    /\ exc.reason = "transfer"
    /\ Len(Downloads) = 2
    /\ Downloads[1].where = "tmpdir" /\ Downloads[1].outcome = "ok"
    /\ Downloads[2].outcome = "Exception"

(***************************************************************************)
(* C7: for an adaptive pair with --no-merge or without ffmpeg, ffmpeg is   *)
(* never invoked; both temporary files are moved to the output directory,  *)
(* as <title>_video.<ext> and <title>_audio.<ext>, each at the path the    *)
(* unique-name policy gives, two distinct paths that did not exist, and    *)
(* the video path is returned.                                             *)
(***************************************************************************)
Planned == pc \in {"fast_merge", "fallback_merge", "video_only", "save_separate"}
              \/ (pc = "exit" /\ out_path # None)

UnmergedPair ==
    /\ args.no_merge => MuxEvents = <<>>
    /\ (Planned /\ (args.no_merge \/ ffmpeg_path = NoTool)) =>
          /\ MuxEvents = <<>>
          /\ pc \in {"save_separate", "exit"}
          /\ pc = "exit" =>
                /\ exc = NoExc /\ exit_code = 0
                /\ Len(Moves) = 2
                /\ Moves[1].src = sLowerVideo \o dot \o sel.video.subtype
                /\ Moves[2].src = sLowerAudio \o dot \o sel.audio.subtype
                /\ IsUniqueFor(Moves[1].dir,
                       title \o sUnderVideo \o dot \o sel.video.subtype, Moves[1].dst)
                /\ IsUniqueFor(Moves[1].dir,
                       title \o sUnderAudio \o dot \o sel.audio.subtype, Moves[2].dst)
                /\ Moves[1].dst # Moves[2].dst
                /\ ~Moves[1].existed /\ ~Moves[2].existed
                /\ {Moves[1].dst, Moves[2].dst} \subseteq outdir
                /\ result = Moves[1].dst

\* C7 witness: --no-merge with ffmpeg installed, and a taken name made one of
\* the two files go to a counter name
UnmergedWitness ==
    /\ pc = "exit"
    /\ args.no_merge /\ ffmpeg_path # NoTool
    /\ Len(Moves) = 2
    /\ Moves[1].dst # title \o sUnderVideo \o dot \o sel.video.subtype
    /\ result = Moves[1].dst

(***************************************************************************)
(* C8: unique_path returns a path that does not exist; the path asked for  *)
(* when that does not exist; else "<stem> (i)<suffix>" for the smallest    *)
(* i >= 1 that is free: with Video.mp4 present, Video (1).mp4, and with    *)
(* that one created too, Video (2).mp4.                                    *)
(***************************************************************************)
VideoMp4 == <<"V", "i", "d", "e", "o", ".", "m", "p", "4">>
Video1Mp4 == <<"V", "i", "d", "e", "o", " ", "(", "1", ")", ".", "m", "p", "4">>
Video2Mp4 == <<"V", "i", "d", "e", "o", " ", "(", "2", ")", ".", "m", "p", "4">>

UniquePathPolicy ==
    /\ \A i \in 1..Len(path_out) :
          IsUniqueFor(path_out[i].dir, path_out[i].target, path_out[i].got)
    /\ \A i \in 1..Len(path_out) :
          /\ (path_out[i].target = VideoMp4 /\ path_out[i].dir = {VideoMp4}) =>
                path_out[i].got = Video1Mp4
          /\ (path_out[i].target = VideoMp4 /\ path_out[i].dir = {VideoMp4, Video1Mp4}) =>
                path_out[i].got = Video2Mp4

\* C8 witness: Video.mp4 was there, the first request gave Video (1).mp4, that
\* file was created, and the second request gave Video (2).mp4
UniquePathWitness ==
    /\ Len(path_out) = 2
    /\ path_out[1].dir = {VideoMp4} /\ path_out[1].target = VideoMp4
    /\ path_out[1].got = Video1Mp4
    /\ path_out[2].dir = {VideoMp4, Video1Mp4}
    /\ path_out[2].got = Video2Mp4

(***************************************************************************)
(* C9: a run that ends with a selection error (unknown itag, no audio      *)
(* stream, no suitable streams) has started no download, has not invoked   *)
(* ffmpeg, has not made a temporary directory and has left the output      *)
(* directory as it was.                                                    *)
(***************************************************************************)
SelectionFailsFast ==
    exc.reason \in SelectionErrors =>
        /\ pc = "exit"
        /\ log = <<>>
        /\ outdir = outdir0
        /\ tmp = NoTmp
        /\ result = None

\* C9 witness: --itag named a video-only stream and the catalog had no audio stream
SelectionErrorWitness ==
    /\ pc = "exit"
    /\ exc.reason = "no_audio_to_pair"
    /\ args.itag = 136
    /\ streams # <<>>

(***************************************************************************)
(* C10: fs_safe_filename applied to its own result returns it unchanged;   *)
(* its result has "_" for each of \ / * ? : " < > |, no whitespace at      *)
(* either end and no whitespace but single spaces; "Ab?c*d" gives          *)
(* "Ab_c_d".                                                               *)
(***************************************************************************)
IsSafeName(n) ==
    /\ \A i \in 1..Len(n) : n[i] \notin Illegal
    /\ \A i \in 1..Len(n) : n[i] \in Whitespace => n[i] = " "
    /\ n # <<>> => n[1] # " " /\ n[Len(n)] # " "
    /\ \A i \in 1..(Len(n) - 1) : ~(n[i] = " " /\ n[i + 1] = " ")

SafeNameIdempotent ==
    /\ Len(name_out) >= 1 =>
          /\ IsSafeName(name_out[1])
          /\ name_in = sExample => name_out[1] = sExampleSafe
          /\ (\A i \in 1..Len(name_in) : name_in[i] \notin Whitespace) =>
                /\ Len(name_out[1]) = Len(name_in)
                /\ \A i \in 1..Len(name_in) :
                      name_out[1][i] = IF name_in[i] \in Illegal THEN "_" ELSE name_in[i]
    /\ Len(name_out) = 2 => name_out[2] = name_out[1]

\* C10 witness: a name with whitespace at its start and an illegal character
\* went through the function twice
SafeNameWitness ==
    /\ Len(name_out) = 2
    /\ Len(name_in) >= 2
    /\ name_in[1] \in Whitespace
    /\ \E i \in 1..Len(name_in) : name_in[i] \in Illegal
    /\ name_out[1] # name_in

====
